---- MODULE Spec2Model ----
(***************************************************************************)
(* GlookoCGMReader (src/glooko-cgm-reader.js): one reader instance, its    *)
(* checkpoint file, and the cycle getLatestCGMData runs:                   *)
(*   loadCheckpoint -> fetchCGMReadings (authenticate, plan the window,    *)
(*   request, retry with backoff) -> transformToNightscout ->              *)
(*   saveCheckpoint -> result.                                             *)
(* Instants are milliseconds counted from a UTC midnight.  The clock, the  *)
(* login and the graph API are the environment: each clock read, each      *)
(* login outcome and each response is chosen with \E.  The code between    *)
(* two awaits runs as one action.                                          *)
(* Spec is the reader running cycles.  SpecCalls is a constructed reader   *)
(* with one of its methods called on its own (transformToNightscout,       *)
(* getTrendArrow, loadCheckpoint then saveCheckpoint, authenticate, the    *)
(* merge of the three bands), the reader's fields and the argument drawn   *)
(* by InitCalls.  SpecCrash is the script run once per process on the      *)
(* checkpoint file earlier runs left, a process that may die in its        *)
(* cycle.  SpecLive is one cycle of a reader whose awaited calls all come  *)
(* back, so that every enabled step of the cycle is eventually taken.      *)
(* SpecShared is the reader running cycles on a checkpoint file that       *)
(* another reader, of another account, saves to as well.                   *)
(***************************************************************************)
EXTENDS Integers, Sequences, FiniteSets, TLC

(* ------------------------------ bounds -------------------------------- *)
\* the hour of the wall clock's first reading
FirstHour == 23
\* most points one response carries, all bands together
MaxPoints == 2
\* most points handed to a method called on its own
MaxCallPoints == 2

(* ------------------------ constants of the code ----------------------- *)
HourMs == 3600000
DayMs == 86400000
SessionHours == 23
TzCorrectionHours == 2
BaseDelayMs == 5000
DefaultMaxRetries == 3
DefaultHoursBack == 24
DefaultTimezoneOffset == 0

\* null / undefined of a field that otherwise holds an instant
NULL == -1
\* a timestamp label Date cannot parse (getTime() is NaN)
BadStamp == -2
\* this.patientId before any login or load
NoPatient == 0
\* a point without y (undefined), and the NaN that arithmetic on it gives
NoValue == -1000000

(* ------------------------------ inputs -------------------------------- *)
\* the accounts a reader can be configured with (config.email)
Patients == {1}

\* readings of the wall clock (Date.now(), new Date()): one, and one a
\* session lifetime later, on the next UTC day.  The clock is the host's:
\* a later read may give an earlier reading.
Clock == {FirstHour * HourMs, (FirstHour + SessionHours) * HourMs}

\* point.y in hundredths of mmol/L: 0 is outside the validity filter, 5.00
\* is inside
YValues == {0, 500}

HoursBackChoices == {1, DefaultHoursBack}
MaxRetriesChoices == {0, DefaultMaxRetries}

Options ==
  [hoursBack : HoursBackChoices, forceFullFetch : BOOLEAN,
   maxRetries : MaxRetriesChoices]

VARIABLES
  account,          \* config.email/password: the patient a login yields
  session,          \* this.session: <<>> or <<patientId, timestamp>>
  sessionExpiry,    \* this.sessionExpiry
  patientId,        \* this.patientId
  lastGuid,         \* this.lastGuid: <<>> or <<x, y>> ("glooko_x_y")
  lastReadingTime,  \* this.lastReadingTime
  file,             \* the checkpoint file
  pc,               \* where the running cycle is
  options,          \* the options of the running cycle
  retryCount,       \* fetchCGMReadings' retryCount
  now,              \* `now` of the current attempt (line 356), or of
                    \* authenticate called on its own (line 74)
  fetchType,        \* fetchType of the current attempt
  request,          \* the graph API request of the current attempt
  authMode,         \* how the current attempt got its session
  authCalls,        \* calls of authenticate in this cycle
  logins,           \* logins this cycle has sent (lines 82-220)
  authFailed,       \* a login of this cycle was rejected
  waits,            \* the delays this cycle has waited, in order
  readings,         \* what fetchCGMReadings returned to the cycle
  result,           \* what getLatestCGMData returned
  caught,           \* `error` of the catch block at line 501, while the
                    \* cycle is in it
  firstError,       \* the error the first attempt of the running cycle
                    \* failed with
  raised,           \* the error that reached getLatestCGMData's catch
  wrote,            \* this cycle wrote the checkpoint file
  succeeded,        \* some cycle has returned success = true
  gotData,          \* some cycle has succeeded with >= 1 reading and
                    \* its checkpoint write went through
  timezoneOffset,   \* this.config.timezoneOffset, in hours
  input,            \* the argument of a method called on its own
  output,           \* what that call returned
  retrieved         \* the raw timestamps of the readings the process that
                    \* died had fetched and transformed

vars ==
  <<account, session, sessionExpiry, patientId, lastGuid, lastReadingTime,
    file, pc, options, retryCount, now, fetchType, request, authMode,
    authCalls, logins, authFailed, waits, readings, result, caught,
    firstError, raised, wrote, succeeded, gotData, timezoneOffset, input,
    output, retrieved>>

\* the configuration, the variables of a method called on its own, and
\* what is known of a process that died: a running cycle changes none
callVars == <<timezoneOffset, input, output, retrieved>>

(* --------------------------- pure helpers ----------------------------- *)
\* response.data.series with no point in any band
NoBands == [cgmHigh |-> <<>>, cgmNormal |-> <<>>, cgmLow |-> <<>>]

NoInput ==
  [kind |-> "none", points |-> <<>>,
   trend |-> [type |-> "undefined", text |-> "", num |-> 0],
   forceNew |-> FALSE, bands |-> NoBands]

NoOutput ==
  [kind |-> "none", entries |-> <<>>, direction |-> "", merged |-> <<>>]

NoFile ==
  [exists |-> FALSE, lastGuid |-> <<>>, lastReadingTime |-> NULL,
   patientId |-> NoPatient]

NoRequest == [startDate |-> NULL, endDate |-> NULL, patient |-> NoPatient]

NoResult == [kind |-> "none", success |-> FALSE, entries |-> <<>>, error |-> "none"]

NoOptions ==
  [hoursBack |-> DefaultHoursBack, forceFullFetch |-> FALSE,
   maxRetries |-> DefaultMaxRetries]

\* new Date(label).getTime() is a number (not NaN)
ValidTime(t) == t # NULL /\ t # BadStamp

\* now.toISOString().split('T')[0] + 'T00:00:00.000Z'
StartOfDay(t) == (t \div DayMs) * DayMs

\* now.toISOString().split('T')[0] + 'T23:59:59.999Z'
EndOfDay(t) == StartOfDay(t) + DayMs - 1

\* Math.round of n / d: the nearest whole number, a half rounds up
RoundDiv(n, d) == (2 * n + d) \div (2 * d)

\* point.y * 18.0143 cut to a whole number
MgDlTruncated(y) ==
  IF y = NoValue THEN NoValue ELSE (y * 180143) \div 1000000

\* Math.round(point.y * 18.0143), y in hundredths of mmol/L
MgDl(y) ==
  IF y = NoValue THEN NoValue ELSE RoundDiv(y * 180143, 1000000)

(* --------------------------- getTrendArrow ---------------------------- *)
\* a trend code is a string, a number, null or undefined
StringCode(text) == [type |-> "string", text |-> text, num |-> 0]
NumberCode(n) == [type |-> "number", text |-> "", num |-> n]
NullCode == [type |-> "null", text |-> "", num |-> 0]
UndefinedCode == [type |-> "undefined", text |-> "", num |-> 0]

\* the decimal digits as text
Digits == <<"0", "1", "2", "3", "4", "5", "6", "7", "8", "9">>

\* String(trend), which is also the property key trendMap[trend] looks up
String(trend) ==
  CASE trend.type = "string" -> trend.text
    [] trend.type = "number" -> Digits[trend.num + 1]
    [] trend.type = "null" -> "null"
    [] OTHER -> "undefined"

\* lines 569-593: the own properties of the object literal trendMap
trendMap ==
  [k \in {"RISING_QUICKLY", "1"} |-> "DoubleUp"] @@
  [k \in {"RISING", "2"} |-> "SingleUp"] @@
  [k \in {"RISING_SLIGHTLY", "3"} |-> "FortyFiveUp"] @@
  [k \in {"STEADY", "4"} |-> "Flat"] @@
  [k \in {"FALLING_SLIGHTLY", "5"} |-> "FortyFiveDown"] @@
  [k \in {"FALLING", "6"} |-> "SingleDown"] @@
  [k \in {"FALLING_QUICKLY", "7"} |-> "DoubleDown"] @@
  [k \in {"NONE", "0"} |-> "NONE"] @@
  [k \in {"NOT_COMPUTABLE", "9"} |-> "NOT COMPUTABLE"] @@
  [k \in {"RATE_OUT_OF_RANGE"} |-> "RateOutOfRange"]

\* names every object literal inherits from Object.prototype; the value
\* under each is a function, or the prototype itself
ObjectPrototypeKeys ==
  {"constructor", "toString", "valueOf", "hasOwnProperty", "__proto__"}

\* what a property read gives when the property is not there
Undefined == "undefined"

\* trendMap[key]: the own property, else the inherited one, else undefined
Lookup(key) ==
  IF key \in DOMAIN trendMap THEN trendMap[key]
  ELSE IF key \in ObjectPrototypeKeys THEN "Object.prototype." \o key
  ELSE Undefined

\* a map whose fallback is the steady arrow
getTrendArrowDefaultFlat(trend) ==
  IF Lookup(String(trend)) # Undefined THEN Lookup(String(trend))
  ELSE "Flat"

\* line 596: trendMap[trend] || trendMap[String(trend)] || 'NONE'
getTrendArrow(trend) ==
  IF Lookup(String(trend)) # Undefined THEN Lookup(String(trend))
  ELSE "NONE"

(* ----------------------- readings and entries ------------------------ *)
\* `glooko_${point.x}_${point.y}`; x is the label's epoch in seconds
Guid(point) == <<point.timestamp \div 1000, point.y>>

\* lines 424-439: one reading per point of the graph API
ToReading(point) ==
  [value |-> MgDl(point.y), timestamp |-> point.timestamp,
   y_mmol |-> point.y, guid |-> Guid(point), trend |-> NullCode,
   deviceName |-> "glooko-cgm"]

\* every sequence over S of length at most n
BoundedSeq(S, n) == UNION {[1..k -> S] : k \in 0..n}

\* every ordering of the elements of s
Permutations_(s) ==
  {[i \in 1..Len(s) |-> s[f[i]]] :
     f \in {g \in [1..Len(s) -> 1..Len(s)] :
              \A i, j \in 1..Len(s) : i # j => g[i] # g[j]}}

\* Array.prototype.sort with (a, b) => Key(b) - Key(a): newest first, and
\* stable, so elements with equal keys keep their order
SortNewestFirst(s, Key(_)) ==
  LET before(i) ==
        {j \in 1..Len(s) :
           \/ Key(s[j]) > Key(s[i])
           \/ Key(s[j]) = Key(s[i]) /\ j < i}
  IN  [p \in 1..Len(s) |->
         s[CHOOSE i \in 1..Len(s) : Cardinality(before(i)) = p - 1]]

ReadingTime(r) == r.timestamp
EntryDate(e) == e.date

\* the readings left in the order the server sent them
UnsortedReadings(rs) == {rs}

\* the readings newest first, those of equal time in the reverse of the
\* order they came in
SortedReadingsTiesReversed(rs) ==
  {SortNewestFirst([i \in 1..Len(rs) |-> rs[Len(rs) + 1 - i]], ReadingTime)}

\* a sort that leaves the readings in any order
SortedReadingsAnyOrder(rs) == Permutations_(rs)

\* lines 482-486: the order readings.sort leaves.  With an unparsable label
\* the comparator returns NaN, it is no consistent comparator, and the
\* order is whatever the engine produces.
SortedReadings(rs) ==
  IF \A i \in 1..Len(rs) : ValidTime(rs[i].timestamp)
  THEN {SortNewestFirst(rs, ReadingTime)}
  ELSE Permutations_(rs)

(* ----------------------- transformToNightscout ------------------------ *)
\* correctedTimestamp.toISOString() throws a RangeError on an Invalid Date
TransformThrows(rs) == \E i \in 1..Len(rs) : ~ValidTime(rs[i].timestamp)

\* Date.prototype.toISOString: the UTC day and the hour, minute, second
\* and millisecond within it
ToISOString(t) ==
  [day |-> t \div DayMs,
   hour |-> (t % DayMs) \div HourMs,
   minute |-> (t % HourMs) \div 60000,
   second |-> (t % 60000) \div 1000,
   ms |-> t % 1000]

\* a correction taken from the configured offset
TimezoneCorrectionFromConfig(offset) == offset * HourMs

\* line 532: the correction is 2 * 60 * 60 * 1000 whatever
\* this.config.timezoneOffset holds
TimezoneCorrection(offset) == TzCorrectionHours * HourMs

\* a trend code `||` lets through: not null, undefined, 0 or ''
TruthyCode(trend) ==
  \/ trend.type = "string" /\ trend.text # ""
  \/ trend.type = "number" /\ trend.num # 0

\* line 541: reading.trend || reading.trendArrow || reading.trendValue; no
\* reading has a trendArrow or a trendValue (424-439)
ReadingTrend(reading) ==
  IF TruthyCode(reading.trend) THEN reading.trend ELSE UndefinedCode

\* line 542: reading.deviceName || 'glooko-cgm'
EntryDevice(reading) ==
  IF reading.deviceName # "" THEN reading.deviceName ELSE "glooko-cgm"

\* lines 525-553: the entry of one reading
ToEntry(reading) ==
  [sgv |-> reading.value, sgv_mmol |-> reading.y_mmol,
   date |-> reading.timestamp - TimezoneCorrection(timezoneOffset),
   dateString |->
     ToISOString(reading.timestamp - TimezoneCorrection(timezoneOffset)),
   direction |-> getTrendArrow(ReadingTrend(reading)),
   device |-> EntryDevice(reading),
   glookoGuid |-> reading.guid]

\* a value `&&` lets through: neither undefined nor 0
Truthy(v) == v # NoValue /\ v # 0

\* a filter that keeps both ends of the range
ValidEntryInclusive(entry) ==
  entry.sgv_mmol # NoValue /\ entry.sgv_mmol >= 0 /\ entry.sgv_mmol <= 3000

\* line 556: entry.sgv_mmol && entry.sgv_mmol > 0 && entry.sgv_mmol < 30
ValidEntry(entry) ==
  Truthy(entry.sgv_mmol) /\ entry.sgv_mmol > 0 /\ entry.sgv_mmol < 3000

\* the entries that pass the filter, left in the order of the readings
transformWithoutSort(glookoReadings) ==
  SelectSeq([i \in 1..Len(glookoReadings) |-> ToEntry(glookoReadings[i])],
            ValidEntry)

transformToNightscout(glookoReadings) ==
  SortNewestFirst(
    SelectSeq([i \in 1..Len(glookoReadings) |-> ToEntry(glookoReadings[i])],
              ValidEntry),
    EntryDate)

(* --------------------------- the checkpoint --------------------------- *)
\* a checkpoint written without its lastReadingTime
CheckpointWithoutTime(guid, time, patient) ==
  [exists |-> TRUE, lastGuid |-> guid, lastReadingTime |-> NULL,
   patientId |-> patient]

\* lines 600-605 and 608: what saveCheckpoint writes (savedAt left out)
Checkpoint(guid, time, patient) ==
  [exists |-> TRUE, lastGuid |-> guid, lastReadingTime |-> time,
   patientId |-> patient]

\* lines 619-623: the fields loadCheckpoint leaves in the reader
LoadedGuid == IF file.exists THEN file.lastGuid ELSE lastGuid
LoadedTime == IF file.exists THEN file.lastReadingTime ELSE lastReadingTime
LoadedPatient == IF file.exists THEN file.patientId ELSE patientId

\* the checkpoint saved after every cycle that ran through
ShouldSaveAlways(rs) == TRUE

\* line 651: the cycle saves the checkpoint
ShouldSave(rs) == Len(rs) > 0

\* a saveCheckpoint that lets the error of writeFileSync through
SaveCheckpointRaises(writeOK) == IF writeOK THEN "checkpoint" ELSE "thrown"

\* lines 607-614: what saveCheckpoint hands back: the checkpoint, or null
\* when writeFileSync threw and the catch at line 611 took the error
SaveCheckpointResult(writeOK) == IF writeOK THEN "checkpoint" ELSE "null"

\* line 608: writeFileSync goes through (TRUE) or throws (FALSE), when the
\* cycle gets as far as calling it
WriteOutcomes(rs) ==
  IF ShouldSave(rs) /\ ~TransformThrows(rs) THEN BOOLEAN ELSE {TRUE}

(* ------------------------- planning the window ------------------------ *)
\* the mode decided by the checkpoint alone
FetchModeIgnoringForce(forceFullFetch, guid, time) ==
  IF guid = <<>> \/ time = NULL THEN "FULL" ELSE "INCREMENTAL"

\* line 359
FetchMode(forceFullFetch, guid, time) ==
  IF forceFullFetch \/ guid = <<>> \/ time = NULL
  THEN "FULL" ELSE "INCREMENTAL"

\* the look-back used in both modes
StartTimeLookback(mode, n, hoursBack, time) == n - hoursBack * HourMs

\* lines 362 and 368
StartTime(mode, n, hoursBack, time) ==
  IF mode = "FULL" THEN n - hoursBack * HourMs ELSE time

\* the start of the look-back or of the checkpoint, forced or not
StartDateUnforced(forceFullFetch, n, startTime) == startTime

\* lines 379-381
StartDate(forceFullFetch, n, startTime) ==
  IF forceFullFetch THEN StartOfDay(n) ELSE startTime

\* lines 382-384
EndDate(forceFullFetch, n) ==
  IF forceFullFetch THEN EndOfDay(n) ELSE n

\* line 381: startTime.toISOString() throws a RangeError on an Invalid Date
PlanThrows(forceFullFetch, startTime) ==
  ~forceFullFetch /\ ~ValidTime(startTime)

(* ----------------------------- the server ----------------------------- *)
\* the band the portal files a value under: cgmLow below 4.0 mmol/L,
\* cgmHigh above 10.0, cgmNormal between
BandOf(y) ==
  IF y < 400 THEN "cgmLow" ELSE IF y > 1000 THEN "cgmHigh" ELSE "cgmNormal"

\* the points the graph API can return in one band for a request: labelled
\* inside the requested range, or carrying a label Date cannot parse
PointsFor(req, band) ==
  [timestamp : {t \in Clock : req.startDate <= t /\ t <= req.endDate}
                 \cup {BadStamp},
   y : {y \in YValues : BandOf(y) = band}]

\* the bands concatenated, a point that came before left out
AllCgmReadingsDistinct(series) ==
  LET all == series.cgmHigh \o series.cgmNormal \o series.cgmLow
      keep == {i \in 1..Len(all) : \A j \in 1..(i - 1) : all[j] # all[i]}
  IN  [p \in 1..Cardinality(keep) |->
         all[CHOOSE i \in keep : Cardinality({j \in keep : j < i}) = p - 1]]

\* lines 416-421
AllCgmReadings(series) ==
  series.cgmHigh \o series.cgmNormal \o series.cgmLow

\* lines 424-439
Readings(series) ==
  LET all == AllCgmReadings(series)
  IN  [i \in 1..Len(all) |-> ToReading(all[i])]

(* ------------------------- getLatestCGMData --------------------------- *)
\* a result that drops the entries of the cycle
SuccessWithoutEntries(entries) ==
  [kind |-> "returned", success |-> TRUE, entries |-> <<>>, error |-> "none"]

\* a result that reports success and carries an error
SuccessWithError(entries) ==
  [kind |-> "returned", success |-> TRUE, entries |-> entries,
   error |-> "Transport"]

\* lines 658-671: the result of a cycle that ran through
Success(entries) ==
  [kind |-> "returned", success |-> TRUE, entries |-> entries,
   error |-> "none"]

\* the error thrown on to the caller
Rethrow(err) ==
  [kind |-> "thrown", success |-> FALSE, entries |-> <<>>, error |-> err]

\* a failure that hands on a record all the same
CatchErrorWithEntries(err) ==
  [kind |-> "returned", success |-> FALSE,
   entries |-> <<ToEntry(ToReading([timestamp |-> 0, y |-> 500]))>>,
   error |-> err]

\* lines 710-722: the catch of getLatestCGMData
CatchError(err) ==
  [kind |-> "returned", success |-> FALSE, entries |-> <<>>, error |-> err]

Init ==
  /\ account \in Patients
  /\ session = <<>>
  /\ sessionExpiry = NULL
  /\ patientId = NoPatient
  /\ lastGuid = <<>>
  /\ lastReadingTime = NULL
  /\ file = NoFile
  /\ pc = "idle"
  /\ options = NoOptions
  /\ retryCount = 0
  /\ now = NULL
  /\ fetchType = "none"
  /\ request = NoRequest
  /\ authMode = "none"
  /\ authCalls = 0
  /\ logins = 0
  /\ authFailed = FALSE
  /\ waits = <<>>
  /\ readings = <<>>
  /\ result = NoResult
  /\ caught = "none"
  /\ firstError = "none"
  /\ raised = "none"
  /\ wrote = FALSE
  /\ succeeded = FALSE
  /\ gotData = FALSE
  /\ timezoneOffset = DefaultTimezoneOffset
  /\ input = NoInput
  /\ output = NoOutput
  /\ retrieved = {}

\* the variables of one attempt, outside an attempt
NoAttempt ==
  /\ now' = NULL
  /\ fetchType' = "none"
  /\ request' = NoRequest
  /\ authMode' = "none"

\* the cycle returns res to its caller; the options and the locals of
\* fetchCGMReadings are gone.  authCalls and firstError stay as the cycle
\* left them until the next cycle starts.
Return(res, rds, err, w) ==
  /\ pc' = "idle"
  /\ options' = NoOptions
  /\ retryCount' = 0
  /\ waits' = <<>>
  /\ result' = res
  /\ readings' = rds
  /\ raised' = err
  /\ wrote' = w
  /\ caught' = "none"
  /\ succeeded' = (succeeded \/ (res.kind = "returned" /\ res.success))
  /\ NoAttempt

\* line 504: error.response?.status === 401 || ... === 403
IsAuthExpired(err) == err \in {"Status401", "Status403"}

\* lines 504-507: what the catch leaves in this.session
SessionAfter(err, s) == IF IsAuthExpired(err) THEN <<>> ELSE s

\* lines 504-507: what the catch leaves in this.sessionExpiry
ExpiryAfter(err, e) == IF IsAuthExpired(err) THEN NULL ELSE e

\* line 512: the error leaves fetchCGMReadings
GivesUp(count, maxRetries) == count >= maxRetries

\* the same wait before every retry
RetryDelayFlat(count) == BaseDelayMs

\* line 517: the wait before the next attempt
RetryDelay(count) == BaseDelayMs * count

\* lines 501-518: the catch of one attempt, after `calls` calls of
\* authenticate.  The error leaves fetchCGMReadings once retryCount reaches
\* maxRetries, and lands in the catch of getLatestCGMData; otherwise the
\* cycle waits.  A call of authenticate that threw had sent its login.
Catch(err, calls) ==
  /\ authCalls' = calls
  /\ logins' = logins + (calls - authCalls)
  /\ firstError' = IF retryCount = 0 THEN err ELSE firstError
  /\ session' = SessionAfter(err, session)
  /\ sessionExpiry' = ExpiryAfter(err, sessionExpiry)
  /\ IF GivesUp(retryCount + 1, options.maxRetries)
     THEN Return(CatchError(err), <<>>, err, FALSE)
     ELSE /\ pc' = "backoff"
          /\ caught' = err
          /\ retryCount' = retryCount + 1
          /\ waits' = Append(waits, RetryDelay(retryCount + 1))
          /\ NoAttempt
          /\ UNCHANGED <<options, result, readings, raised, wrote, succeeded>>
  /\ UNCHANGED <<account, patientId, lastGuid, lastReadingTime, file,
                 gotData>>
  /\ UNCHANGED callVars

\* lines 637-645: a cycle starts; loadCheckpoint, then fetchCGMReadings
StartCycle(opts) ==
  /\ pc = "idle"
  /\ lastGuid' = LoadedGuid
  /\ lastReadingTime' = LoadedTime
  /\ patientId' = LoadedPatient
  /\ pc' = "loop"
  /\ options' = opts
  /\ retryCount' = 0
  /\ authCalls' = 0
  /\ logins' = 0
  /\ authFailed' = FALSE
  /\ waits' = <<>>
  /\ readings' = <<>>
  /\ result' = NoResult
  /\ caught' = "none"
  /\ firstError' = "none"
  /\ raised' = "none"
  /\ wrote' = FALSE
  /\ NoAttempt
  /\ UNCHANGED <<account, session, sessionExpiry, file, succeeded, gotData>>
  /\ UNCHANGED callVars

\* a loop that tests after its body: the first attempt always runs
LoopRunsOnce(count, maxRetries) == count = 0 \/ count < maxRetries

\* line 351: while (retryCount < maxRetries)
LoopRuns(count, maxRetries) == count < maxRetries

\* line 351 with retryCount >= maxRetries at the first test: the loop body
\* never runs, fetchCGMReadings returns undefined and line 523 reads
\* undefined.length, a TypeError
LoopExit ==
  /\ pc = "loop"
  /\ ~LoopRuns(retryCount, options.maxRetries)
  /\ Return(CatchError("TypeError"), <<>>, "TypeError", FALSE)
  /\ UNCHANGED <<account, session, sessionExpiry, patientId, lastGuid,
                 lastReadingTime, file, authCalls, logins, authFailed,
                 firstError, gotData>>
  /\ UNCHANGED callVars

\* authenticate() without forceNew on a retry
ForceNewNever(count) == FALSE

\* line 353: authenticate(retryCount > 0)
ForceNew(count) == count > 0

\* a session still handed out at the instant it expires
CachedSessionAtExpiry(forceNew, t) ==
  ~forceNew /\ session # <<>> /\ sessionExpiry # NULL /\ sessionExpiry >= t

\* line 77: the cached session is still good at time t
CachedSession(forceNew, t) ==
  ~forceNew /\ session # <<>> /\ sessionExpiry # NULL /\ sessionExpiry > t

\* lines 353 and 73-80: authenticate returns the cached session
AuthCached ==
  /\ pc = "loop"
  /\ LoopRuns(retryCount, options.maxRetries)
  /\ \E t \in Clock : CachedSession(ForceNew(retryCount), t)
  /\ pc' = "authed"
  /\ authMode' = "cached"
  /\ authCalls' = authCalls + 1
  /\ UNCHANGED logins
  /\ UNCHANGED <<account, session, sessionExpiry, patientId, lastGuid,
                 lastReadingTime, file, options, retryCount, now, fetchType,
                 request, authFailed, waits, readings, result, caught,
                 firstError, raised, wrote, succeeded, gotData>>
  /\ UNCHANGED callVars

\* lines 82-220: authenticate logs in and the login goes through
Login ==
  /\ pc = "loop"
  /\ LoopRuns(retryCount, options.maxRetries)
  /\ \E t \in Clock :
       /\ ~CachedSession(ForceNew(retryCount), t)
       /\ patientId' = account
       /\ session' = <<account, t>>
       /\ sessionExpiry' = t + SessionHours * HourMs
  /\ pc' = "authed"
  /\ authMode' = "login"
  /\ authCalls' = authCalls + 1
  /\ logins' = logins + 1
  /\ UNCHANGED <<account, lastGuid, lastReadingTime, file, options,
                 retryCount, now, fetchType, request, authFailed, waits,
                 readings, result, caught, firstError, raised, wrote,
                 succeeded, gotData>>
  /\ UNCHANGED callVars

\* lines 147-152, 194, 222-224: the login is rejected and authenticate
\* throws; the error is caught at line 501
LoginFails ==
  /\ pc = "loop"
  /\ LoopRuns(retryCount, options.maxRetries)
  /\ \E t \in Clock : ~CachedSession(ForceNew(retryCount), t)
  /\ authFailed' = TRUE
  /\ Catch("AuthError", authCalls + 1)

\* lines 355-411: the attempt reads the clock, plans its window and sends
\* the request
Plan ==
  /\ pc = "authed"
  /\ \E n \in Clock :
       LET mode == FetchMode(options.forceFullFetch, lastGuid, lastReadingTime)
           startTime == StartTime(mode, n, options.hoursBack, lastReadingTime)
       IN  /\ ~PlanThrows(options.forceFullFetch, startTime)
           /\ now' = n
           /\ fetchType' = mode
           /\ request' =
                [startDate |-> StartDate(options.forceFullFetch, n, startTime),
                 endDate |-> EndDate(options.forceFullFetch, n),
                 patient |-> session[1]]
  /\ pc' = "fetching"
  /\ UNCHANGED <<account, session, sessionExpiry, patientId, lastGuid,
                 lastReadingTime, file, options, retryCount, authMode,
                 authCalls, logins, authFailed, waits, readings, result,
                 caught, firstError, raised, wrote, succeeded, gotData>>
  /\ UNCHANGED callVars

\* line 381 throws: the checkpoint's lastReadingTime is no date
PlanFails ==
  /\ pc = "authed"
  /\ LET mode == FetchMode(options.forceFullFetch, lastGuid, lastReadingTime)
     IN  \E n \in Clock :
           PlanThrows(options.forceFullFetch,
                      StartTime(mode, n, options.hoursBack, lastReadingTime))
  /\ Catch("RangeError", authCalls)
  /\ UNCHANGED authFailed

\* lines 399 and 504-507: the graph API answers 401 or 403
RespondAuthExpired ==
  /\ pc = "fetching"
  /\ \E err \in {"Status401", "Status403"} : Catch(err, authCalls)
  /\ UNCHANGED authFailed

\* lines 399 and 508-510: the request fails otherwise (network, timeout,
\* another status)
RespondError ==
  /\ pc = "fetching"
  /\ Catch("Transport", authCalls)
  /\ UNCHANGED authFailed

\* lines 413-499 and 645-708: the graph API answers with its three bands;
\* fetchCGMReadings returns and the cycle runs to its end
RespondOK ==
  /\ pc = "fetching"
  /\ \E high \in BoundedSeq(PointsFor(request, "cgmHigh"), MaxPoints) :
     \E normal \in BoundedSeq(PointsFor(request, "cgmNormal"),
                               MaxPoints - Len(high)) :
     \E low \in BoundedSeq(PointsFor(request, "cgmLow"),
                            MaxPoints - Len(high) - Len(normal)) :
       LET series == [cgmHigh |-> high, cgmNormal |-> normal, cgmLow |-> low]
       IN  \E rs \in SortedReadings(Readings(series)) :
           \E writeOK \in WriteOutcomes(rs) :
             LET newGuid == IF Len(rs) > 0 THEN rs[1].guid ELSE lastGuid
                 newTime == IF Len(rs) > 0 THEN rs[1].timestamp
                            ELSE lastReadingTime
                 saved == ShouldSave(rs) /\ writeOK
             IN  /\ lastGuid' = newGuid
                 /\ lastReadingTime' = newTime
                 /\ IF TransformThrows(rs)
                    THEN /\ Return(CatchError("RangeError"), rs, "RangeError",
                                   FALSE)
                         /\ UNCHANGED <<file, gotData>>
                    ELSE IF /\ ShouldSave(rs)
                            /\ SaveCheckpointResult(writeOK) = "thrown"
                    THEN /\ Return(CatchError("WriteError"), rs, "WriteError",
                                   FALSE)
                         /\ UNCHANGED <<file, gotData>>
                    ELSE /\ Return(Success(transformToNightscout(rs)), rs,
                                   "none", saved)
                         /\ file' = IF saved
                                    THEN Checkpoint(newGuid, newTime, patientId)
                                    ELSE file
                         /\ gotData' = (gotData \/ (Len(rs) > 0 /\ writeOK))
  /\ UNCHANGED <<account, session, sessionExpiry, patientId, authCalls,
                 logins, authFailed, firstError>>
  /\ UNCHANGED callVars

\* line 517: the wait is over, the loop tests retryCount again
BackoffElapsed ==
  /\ pc = "backoff"
  /\ pc' = "loop"
  /\ caught' = "none"
  /\ UNCHANGED <<account, session, sessionExpiry, patientId, lastGuid,
                 lastReadingTime, file, options, retryCount, now, fetchType,
                 request, authMode, authCalls, logins, authFailed, waits,
                 readings, result, firstError, raised, wrote, succeeded,
                 gotData>>
  /\ UNCHANGED callVars

\* lines 16-39: the process ends between two cycles and a new reader is
\* constructed; only the checkpoint file outlives it
Restart ==
  /\ pc = "idle"
  /\ account' \in Patients
  /\ session' = <<>>
  /\ sessionExpiry' = NULL
  /\ patientId' = NoPatient
  /\ lastGuid' = <<>>
  /\ lastReadingTime' = NULL
  /\ options' = NoOptions
  /\ retryCount' = 0
  /\ authCalls' = 0
  /\ logins' = 0
  /\ authFailed' = FALSE
  /\ waits' = <<>>
  /\ readings' = <<>>
  /\ result' = NoResult
  /\ caught' = "none"
  /\ firstError' = "none"
  /\ raised' = "none"
  /\ wrote' = FALSE
  /\ UNCHANGED <<file, pc, now, fetchType, request, authMode, succeeded,
                 gotData>>
  /\ UNCHANGED callVars

Next ==
  \/ \E opts \in Options : StartCycle(opts)
  \/ LoopExit
  \/ AuthCached
  \/ Login
  \/ LoginFails
  \/ Plan
  \/ PlanFails
  \/ RespondAuthExpired
  \/ RespondError
  \/ RespondOK
  \/ BackoffElapsed
  \/ Restart

Spec == Init /\ [][Next]_vars

\* a step of the running cycle.  Every await of the cycle is on a call
\* that returns or throws (authenticate at line 353, axios.get at 399 with
\* its timeout of 30 s) or on a timer (517), and the code between two
\* awaits runs to its end.
CycleStep ==
  \/ LoopExit
  \/ AuthCached
  \/ Login
  \/ LoginFails
  \/ Plan
  \/ PlanFails
  \/ RespondAuthExpired
  \/ RespondError
  \/ RespondOK
  \/ BackoffElapsed

(* -------------------- the methods called on their own ----------------- *)
\* config.timezoneOffset || 0
TimezoneOffsets == {DefaultTimezoneOffset, 2, -5}

\* timestamp labels: a midnight, an instant with every field of the ISO
\* string set, and a label Date cannot parse
CallTimes == {0, DayMs + HourMs + 61001, BadStamp}

\* point.y in hundredths of mmol/L, around both ends of the validity
\* filter, and a point without y
CallYValues == {NoValue, -1, 0, 1, 500, 820, 1210, 2999, 3000}

CallPoints == [timestamp : CallTimes, y : CallYValues]

TrendCodes ==
  {StringCode(t) : t \in DOMAIN trendMap}
    \cup {StringCode(t) : t \in {"UNKNOWN", "8", "", "rising", "constructor",
                                  "toString"}}
    \cup {NumberCode(n) : n \in 0..9}
    \cup {NullCode, UndefinedCode}

\* the trend of the readings handed to transformToNightscout called on its
\* own: null, as fetchCGMReadings sets it (line 437), or a trend of the
\* caller's
CarriedTrends == {NullCode, StringCode("RISING")}

\* the checkpoint files saveCheckpoint can have written after a fetch
WellFormedCheckpoints ==
  [exists : {TRUE},
   lastGuid : {Guid(pt) : pt \in [timestamp : Clock, y : YValues]},
   lastReadingTime : Clock,
   patientId : Patients]

\* the readings of the clock an authenticate called on its own can get:
\* around each instant a session can expire at
AuthTimes == {t + d : t \in Clock, d \in {-1, 0, 1}}

\* this.session and this.sessionExpiry: both null, or both set by a login
\* (lines 207-213)
Sessions ==
  {[session |-> <<>>, sessionExpiry |-> NULL]} \cup
  {[session |-> <<p, t>>, sessionExpiry |-> t + SessionHours * HourMs] :
     p \in Patients, t \in Clock}

\* the points a response can carry in any band: two five minutes apart
\* or at the same instant, with a label Date can or cannot parse, and a
\* value inside the validity filter or at either end of it
MergePoints ==
  [timestamp : {DayMs, DayMs + 300000, BadStamp}, y : {0, 500, 1200, 3000}]

\* what every method called on its own leaves alone
callFrame ==
  <<account, options, retryCount, fetchType, request, authMode, authCalls,
    logins, authFailed, waits, result, caught, firstError, raised, succeeded,
    gotData, timezoneOffset, input, retrieved>>

\* what every method but authenticate leaves alone
authFrame == <<session, sessionExpiry, now>>

\* a constructed reader about to have one method called, with the
\* argument of the call
InitCalls ==
  /\ account \in Patients
  /\ pc = "call"
  /\ options = NoOptions
  /\ retryCount = 0
  /\ now = NULL
  /\ fetchType = "none"
  /\ request = NoRequest
  /\ authMode = "none"
  /\ authCalls = 0
  /\ logins = 0
  /\ authFailed = FALSE
  /\ waits = <<>>
  /\ readings = <<>>
  /\ result = NoResult
  /\ caught = "none"
  /\ firstError = "none"
  /\ raised = "none"
  /\ wrote = FALSE
  /\ succeeded = FALSE
  /\ gotData = FALSE
  /\ output = NoOutput
  /\ retrieved = {}
  /\ \/ /\ input \in [kind : {"transform"},
                       points : BoundedSeq(CallPoints, MaxCallPoints),
                       trend : CarriedTrends, forceNew : {FALSE},
                       bands : {NoBands}]
        /\ timezoneOffset \in TimezoneOffsets
        /\ session = <<>>
        /\ sessionExpiry = NULL
        /\ file = NoFile
        /\ lastGuid = <<>>
        /\ lastReadingTime = NULL
        /\ patientId = NoPatient
     \/ /\ input \in [kind : {"trend"}, points : {<<>>}, trend : TrendCodes,
                       forceNew : {FALSE}, bands : {NoBands}]
        /\ timezoneOffset = DefaultTimezoneOffset
        /\ session = <<>>
        /\ sessionExpiry = NULL
        /\ file = NoFile
        /\ lastGuid = <<>>
        /\ lastReadingTime = NULL
        /\ patientId = NoPatient
     \/ /\ input = [NoInput EXCEPT !.kind = "checkpoint"]
        /\ timezoneOffset = DefaultTimezoneOffset
        /\ session = <<>>
        /\ sessionExpiry = NULL
        /\ file \in WellFormedCheckpoints
        /\ lastGuid \in {<<>>} \cup {f.lastGuid : f \in WellFormedCheckpoints}
        /\ lastReadingTime \in {NULL} \cup Clock
        /\ patientId \in {NoPatient} \cup Patients
     \/ /\ input \in [kind : {"authenticate"}, points : {<<>>},
                       trend : {UndefinedCode}, forceNew : BOOLEAN,
                       bands : {NoBands}]
        /\ timezoneOffset = DefaultTimezoneOffset
        /\ \E s \in Sessions :
             /\ session = s.session
             /\ sessionExpiry = s.sessionExpiry
             /\ patientId = IF s.session = <<>> THEN NoPatient
                            ELSE s.session[1]
        /\ file = NoFile
        /\ lastGuid = <<>>
        /\ lastReadingTime = NULL
     \/ /\ \E high \in BoundedSeq(MergePoints, MaxCallPoints) :
           \E normal \in BoundedSeq(MergePoints, MaxCallPoints - Len(high)) :
           \E low \in BoundedSeq(MergePoints,
                                  MaxCallPoints - Len(high) - Len(normal)) :
             input = [NoInput EXCEPT
                        !.kind = "merge",
                        !.bands = [cgmHigh |-> high, cgmNormal |-> normal,
                                   cgmLow |-> low]]
        /\ timezoneOffset = DefaultTimezoneOffset
        /\ session = <<>>
        /\ sessionExpiry = NULL
        /\ file = NoFile
        /\ lastGuid = <<>>
        /\ lastReadingTime = NULL
        /\ patientId = NoPatient

\* lines 522-565: transformToNightscout(readings), the readings built from
\* points as lines 424-439 build them, with the trend the caller gave them
CallTransformToNightscout ==
  /\ pc = "call"
  /\ input.kind = "transform"
  /\ LET rs == [i \in 1..Len(input.points) |->
                 [ToReading(input.points[i]) EXCEPT !.trend = input.trend]]
     IN  /\ readings' = rs
         /\ output' =
              IF TransformThrows(rs)
              THEN [NoOutput EXCEPT !.kind = "thrown"]
              ELSE [NoOutput EXCEPT !.kind = "entries",
                                    !.entries = transformToNightscout(rs)]
  /\ pc' = "done"
  /\ UNCHANGED <<lastGuid, lastReadingTime, patientId, file, wrote>>
  /\ UNCHANGED callFrame
  /\ UNCHANGED authFrame

\* lines 567-597: getTrendArrow(trend)
CallGetTrendArrow ==
  /\ pc = "call"
  /\ input.kind = "trend"
  /\ output' = [NoOutput EXCEPT !.kind = "direction",
                                !.direction = getTrendArrow(input.trend)]
  /\ pc' = "done"
  /\ UNCHANGED <<lastGuid, lastReadingTime, patientId, file, wrote,
                 readings>>
  /\ UNCHANGED callFrame
  /\ UNCHANGED authFrame

\* lines 617-635: loadCheckpoint()
CallLoadCheckpoint ==
  /\ pc = "call"
  /\ input.kind = "checkpoint"
  /\ lastGuid' = LoadedGuid
  /\ lastReadingTime' = LoadedTime
  /\ patientId' = LoadedPatient
  /\ output' = [NoOutput EXCEPT
                  !.kind = IF file.exists THEN "checkpoint" ELSE "null"]
  /\ pc' = "loaded"
  /\ UNCHANGED <<file, wrote, readings>>
  /\ UNCHANGED callFrame
  /\ UNCHANGED authFrame

\* lines 599-615: saveCheckpoint(), called directly after loadCheckpoint
CallSaveCheckpoint ==
  /\ pc = "loaded"
  /\ \E writeOK \in BOOLEAN :
       /\ file' = IF writeOK
                  THEN Checkpoint(lastGuid, lastReadingTime, patientId)
                  ELSE file
       /\ wrote' = writeOK
       /\ output' = [NoOutput EXCEPT !.kind = SaveCheckpointResult(writeOK)]
  /\ pc' = "saved"
  /\ UNCHANGED <<lastGuid, lastReadingTime, patientId, readings>>
  /\ UNCHANGED callFrame
  /\ UNCHANGED authFrame

\* lines 73-230: authenticate(forceNew).  It reads the clock once (line
\* 74), hands back the session it holds, or logs in: the login goes
\* through and sets the session and its expiry, or is rejected and throws.
CallAuthenticate ==
  /\ pc = "call"
  /\ input.kind = "authenticate"
  /\ \E t \in AuthTimes :
       /\ now' = t
       /\ IF CachedSession(input.forceNew, t)
          THEN /\ output' = [NoOutput EXCEPT !.kind = "cached"]
               /\ UNCHANGED <<session, sessionExpiry, patientId>>
          ELSE \/ /\ patientId' = account
                  /\ session' = <<account, t>>
                  /\ sessionExpiry' = t + SessionHours * HourMs
                  /\ output' = [NoOutput EXCEPT !.kind = "login"]
               \/ /\ output' = [NoOutput EXCEPT !.kind = "thrown"]
                  /\ UNCHANGED <<session, sessionExpiry, patientId>>
  /\ pc' = "done"
  /\ UNCHANGED <<lastGuid, lastReadingTime, file, wrote, readings>>
  /\ UNCHANGED callFrame

\* lines 413-499 and 648: the bands of a response merged into readings,
\* the checkpoint fields set from the newest, and the readings transformed
CallMerge ==
  /\ pc = "call"
  /\ input.kind = "merge"
  /\ \E rs \in SortedReadings(Readings(input.bands)) :
       /\ readings' = rs
       /\ lastGuid' = IF Len(rs) > 0 THEN rs[1].guid ELSE lastGuid
       /\ lastReadingTime' = IF Len(rs) > 0 THEN rs[1].timestamp
                             ELSE lastReadingTime
       /\ output' =
            IF TransformThrows(rs)
            THEN [NoOutput EXCEPT !.kind = "thrown"]
            ELSE [NoOutput EXCEPT !.kind = "entries",
                                  !.entries = transformToNightscout(rs)]
  /\ pc' = "merged"
  /\ UNCHANGED <<patientId, file, wrote>>
  /\ UNCHANGED callFrame
  /\ UNCHANGED authFrame

\* lines 413-439 and 479-486 again: the same bands arrive once more and
\* are merged
CallMergeAgain ==
  /\ pc = "merged"
  /\ \E rs \in SortedReadings(Readings(input.bands)) :
       output' = [output EXCEPT !.merged = rs]
  /\ pc' = "done"
  /\ UNCHANGED <<lastGuid, lastReadingTime, patientId, file, wrote,
                 readings>>
  /\ UNCHANGED callFrame
  /\ UNCHANGED authFrame

NextCalls ==
  \/ CallAuthenticate
  \/ CallMerge
  \/ CallMergeAgain
  \/ CallTransformToNightscout
  \/ CallGetTrendArrow
  \/ CallLoadCheckpoint
  \/ CallSaveCheckpoint

SpecCalls == InitCalls /\ [][NextCalls]_vars

(* ------------------- the script, one run per process ------------------ *)
\* the checkpoint file a run finds: none, or one an earlier run saved
FoundFiles == {NoFile} \cup WellFormedCheckpoints

\* lines 754-841: a process has started and constructed its reader
InitCrash ==
  /\ account \in Patients
  /\ session = <<>>
  /\ sessionExpiry = NULL
  /\ patientId = NoPatient
  /\ lastGuid = <<>>
  /\ lastReadingTime = NULL
  /\ file \in FoundFiles
  /\ pc = "idle"
  /\ options = NoOptions
  /\ retryCount = 0
  /\ now = NULL
  /\ fetchType = "none"
  /\ request = NoRequest
  /\ authMode = "none"
  /\ authCalls = 0
  /\ logins = 0
  /\ authFailed = FALSE
  /\ waits = <<>>
  /\ readings = <<>>
  /\ result = NoResult
  /\ caught = "none"
  /\ firstError = "none"
  /\ raised = "none"
  /\ wrote = FALSE
  /\ succeeded = FALSE
  /\ gotData = FALSE
  /\ timezoneOffset = DefaultTimezoneOffset
  /\ input = NoInput
  /\ output = NoOutput
  /\ retrieved = {}

\* lines 843-850: main runs one cycle and the process exits.  The reader
\* of such a process has no session to reuse at its first attempt, and the
\* lastReadingTime it loads is one a cycle saved, a date.
RunCycle(opts) ==
  /\ result.kind = "none"
  /\ StartCycle(opts)

\* the process dies after line 648 (the response is in, the readings are
\* sorted and transformed) and before line 652 writes the checkpoint.
\* Everything the reader held is gone; the file is as it was.  The next run
\* constructs its reader (lines 16-39).  One process dies per behaviour.
Crash ==
  /\ pc = "fetching"
  /\ retrieved = {}
  /\ \E high \in BoundedSeq(PointsFor(request, "cgmHigh"), MaxPoints) :
     \E normal \in BoundedSeq(PointsFor(request, "cgmNormal"),
                               MaxPoints - Len(high)) :
     \E low \in BoundedSeq(PointsFor(request, "cgmLow"),
                            MaxPoints - Len(high) - Len(normal)) :
       LET series == [cgmHigh |-> high, cgmNormal |-> normal, cgmLow |-> low]
       IN  \E rs \in SortedReadings(Readings(series)) :
             /\ ~TransformThrows(rs)
             /\ retrieved' = {rs[i].timestamp : i \in 1..Len(rs)}
  /\ session' = <<>>
  /\ sessionExpiry' = NULL
  /\ patientId' = NoPatient
  /\ lastGuid' = <<>>
  /\ lastReadingTime' = NULL
  /\ pc' = "idle"
  /\ options' = NoOptions
  /\ retryCount' = 0
  /\ authCalls' = 0
  /\ logins' = 0
  /\ authFailed' = FALSE
  /\ waits' = <<>>
  /\ readings' = <<>>
  /\ result' = NoResult
  /\ caught' = "none"
  /\ firstError' = "none"
  /\ raised' = "none"
  /\ wrote' = FALSE
  /\ NoAttempt
  /\ UNCHANGED <<account, file, succeeded, gotData, timezoneOffset, input,
                 output>>

\* the run is answered and ends; the run after a crash is followed as far
\* as its requests
RespondOKBeforeCrash ==
  /\ retrieved = {}
  /\ RespondOK

NextCrash ==
  \/ \E opts \in Options : RunCycle(opts)
  \/ LoopExit
  \/ Login
  \/ LoginFails
  \/ Plan
  \/ RespondAuthExpired
  \/ RespondError
  \/ RespondOKBeforeCrash
  \/ BackoffElapsed
  \/ Crash

SpecCrash == InitCrash /\ [][NextCrash]_vars

(* --------------------- one cycle, its calls coming back --------------- *)
\* what a reader holds between two cycles: nothing yet; a session and the
\* checkpoint of a cycle that fetched a point; or a session and the
\* timestamp label of a point Date cannot parse (lines 488-490)
HeldByReader ==
  {[session |-> <<>>, sessionExpiry |-> NULL, patientId |-> NoPatient,
    lastGuid |-> <<>>, lastReadingTime |-> NULL]}
  \cup
  {[session |-> <<p, t>>, sessionExpiry |-> t + SessionHours * HourMs,
    patientId |-> p, lastGuid |-> Guid([timestamp |-> l, y |-> 500]),
    lastReadingTime |-> l] :
     p \in Patients, t \in {FirstHour * HourMs},
     l \in {FirstHour * HourMs, BadStamp}}

\* a reader about to run a cycle
InitLive ==
  /\ account \in Patients
  /\ \E h \in HeldByReader :
       /\ session = h.session
       /\ sessionExpiry = h.sessionExpiry
       /\ patientId = h.patientId
       /\ lastGuid = h.lastGuid
       /\ lastReadingTime = h.lastReadingTime
  /\ file = NoFile
  /\ pc = "idle"
  /\ options = NoOptions
  /\ retryCount = 0
  /\ now = NULL
  /\ fetchType = "none"
  /\ request = NoRequest
  /\ authMode = "none"
  /\ authCalls = 0
  /\ logins = 0
  /\ authFailed = FALSE
  /\ waits = <<>>
  /\ readings = <<>>
  /\ result = NoResult
  /\ caught = "none"
  /\ firstError = "none"
  /\ raised = "none"
  /\ wrote = FALSE
  /\ succeeded = FALSE
  /\ gotData = FALSE
  /\ timezoneOffset = DefaultTimezoneOffset
  /\ input = NoInput
  /\ output = NoOutput
  /\ retrieved = {}

\* the options of that cycle: the defaults of line 343-347, and no retry
LiveOptions ==
  [hoursBack : {DefaultHoursBack}, forceFullFetch : {FALSE},
   maxRetries : MaxRetriesChoices]

NextLive ==
  \/ \E opts \in LiveOptions : RunCycle(opts)
  \/ CycleStep

\* one cycle of the reader, each call it awaits coming back
SpecLive == InitLive /\ [][NextLive]_vars /\ WF_vars(CycleStep)

(* ------------------------------ claims -------------------------------- *)
\* the checkpoint is usable for an incremental fetch
HasCheckpoint == lastGuid # <<>> /\ lastReadingTime # NULL

\* lastReadingTime of the persisted checkpoint, NULL without a file
FileTime == IF file.exists THEN file.lastReadingTime ELSE NULL

\* the raw timestamp an entry was made from
RawTime(entry) == entry.date + TzCorrectionHours * HourMs

\* the instant an ISO date string denotes
FromISOString(d) ==
  d.day * DayMs + d.hour * HourMs + d.minute * 60000 + d.second * 1000 + d.ms

\* C1: at the planning step of every attempt the mode is FULL exactly when
\* forceFull is set or the reader's checkpoint lacks lastGuid or
\* lastReadingTime, and INCREMENTAL otherwise.
C1_ModeFullIffForcedOrNoCheckpoint ==
  pc = "fetching" =>
    /\ fetchType \in {"FULL", "INCREMENTAL"}
    /\ fetchType = "FULL" <=> (options.forceFullFetch \/ ~HasCheckpoint)

\* an attempt forced to FULL although a checkpoint is there
C1_Witness ==
  /\ pc = "fetching"
  /\ options.forceFullFetch
  /\ HasCheckpoint
  /\ fetchType = "FULL"

\* C2: with forceFull unset and a checkpoint holding lastGuid and
\* lastReadingTime = T, the window sent is [T, now], whatever hoursBack is.
C2_IncrementalWindowIsCheckpointToNow ==
  (pc = "fetching" /\ ~options.forceFullFetch /\ HasCheckpoint) =>
    /\ request.startDate = lastReadingTime
    /\ request.endDate = now

\* an incremental request whose start is not the look-back's start
C2_Witness ==
  /\ pc = "fetching"
  /\ ~options.forceFullFetch
  /\ HasCheckpoint
  /\ request.startDate = lastReadingTime
  /\ request.endDate = now
  /\ request.startDate # now - options.hoursBack * HourMs

\* C3: an incremental attempt whose checkpoint is later than now sends the
\* empty window [now, now]; no request has its start later than its end.
C3_WindowClampedOnClockSkew ==
  pc = "fetching" =>
    /\ request.startDate <= request.endDate
    /\ (fetchType = "INCREMENTAL" /\ lastReadingTime > now) =>
         (request.startDate = now /\ request.endDate = now)

\* C4: getLatestCGMData never throws; an error that leaves the fetch or
\* the transform ends the cycle with success = false, the error's message
\* and no entries.
C4_CycleNeverThrows ==
  (pc = "idle" /\ result.kind # "none") =>
    /\ result.kind = "returned"
    /\ raised # "none" =>
         /\ ~result.success
         /\ result.error = raised
         /\ result.entries = <<>>

\* a cycle whose transform step threw on fetched readings
C4_Witness ==
  /\ pc = "idle"
  /\ raised = "RangeError"
  /\ readings # <<>>
  /\ result.kind = "returned"
  /\ ~result.success

\* C5 as claimed: the checkpoint file is written only in a cycle whose
\* result holds at least one record.
C5_SavedOnlyWithRecords == wrote => Len(result.entries) > 0

\* C5 as amended: the checkpoint file is written only in a cycle that
\* returned success = true and fetched at least one reading, whether or not
\* a reading passed the validity filter.
C5_SavedOnlyWithReadings ==
  wrote => (result.kind = "returned" /\ result.success /\ Len(readings) > 0)

\* a cycle that wrote the checkpoint and returned no record
C5_Witness ==
  /\ wrote
  /\ Len(readings) > 0
  /\ result.success
  /\ result.entries = <<>>

\* C6 as claimed: the saved lastGuid is the glookoGuid of entries[0] and no
\* returned record has a raw timestamp later than the saved lastReadingTime.
C6_CheckpointIsNewestEntry ==
  wrote =>
    /\ result.entries # <<>>
    /\ file.lastGuid = result.entries[1].glookoGuid
    /\ \A i \in 1..Len(result.entries) :
         RawTime(result.entries[i]) <= file.lastReadingTime

\* C6 as amended: the saved lastGuid and lastReadingTime are those of the
\* newest fetched reading, before the validity filter; no fetched reading
\* and no returned record is later; and lastGuid is the glookoGuid of
\* entries[0] whenever that newest reading passes the filter.
C6_CheckpointIsNewestReading ==
  wrote =>
    /\ file.exists
    /\ file.lastGuid = readings[1].guid
    /\ file.lastReadingTime = readings[1].timestamp
    /\ \A i \in 1..Len(readings) :
         readings[i].timestamp <= file.lastReadingTime
    /\ \A i \in 1..Len(result.entries) :
         RawTime(result.entries[i]) <= file.lastReadingTime
    /\ ValidEntry(ToEntry(readings[1])) =>
         file.lastGuid = result.entries[1].glookoGuid

\* a saved checkpoint keyed on a newest reading the filter dropped, with an
\* older reading returned
C6_Witness ==
  /\ wrote
  /\ Len(readings) = 2
  /\ readings[1].timestamp > readings[2].timestamp
  /\ ~ValidEntry(ToEntry(readings[1]))
  /\ Len(result.entries) = 1
  /\ file.lastGuid # result.entries[1].glookoGuid

\* C7: the persisted checkpoint's lastReadingTime, once set, never
\* decreases.
C7_LastReadingTimeNeverDecreases ==
  [][(file.exists /\ file'.exists) =>
       file'.lastReadingTime >= file.lastReadingTime]_vars

\* C8 as claimed: between cycles the checkpoint's lastReadingTime is null
\* exactly when no cycle has returned success = true.
C8_NullIffNoSuccessfulCycle ==
  pc = "idle" => (FileTime = NULL <=> ~succeeded)

\* C8 as amended: between cycles the persisted checkpoint's lastReadingTime
\* is null exactly when no cycle has yet returned success = true with at
\* least one fetched reading and had its checkpoint write go through.
C8_NullIffNoCycleWithData ==
  pc = "idle" => (FileTime = NULL <=> ~gotData)

\* a cycle has succeeded, with no reading, and the checkpoint is still null
C8_Witness ==
  /\ pc = "idle"
  /\ succeeded
  /\ result.success
  /\ readings = <<>>
  /\ FileTime = NULL

\* C9: a cycle makes at most maxRetries attempts; a 401/403 clears the
\* session and its expiry; each later attempt logs in anew, reads the clock
\* again, plans again and sends its own request.
C9_RetryRunsWholePipeline ==
  /\ pc # "idle" =>
       /\ authCalls <= options.maxRetries
       /\ retryCount <= authCalls
  /\ (pc = "backoff" /\ IsAuthExpired(caught)) =>
       (session = <<>> /\ sessionExpiry = NULL)
  /\ pc = "backoff" => (now = NULL /\ request = NoRequest)
  /\ (pc \in {"authed", "fetching"} /\ retryCount > 0) =>
       (authMode = "login" /\ session # <<>>)
  /\ pc = "fetching" =>
       /\ authCalls = retryCount + 1
       /\ now \in Clock
       /\ request.endDate = EndDate(options.forceFullFetch, now)
       /\ request.patient = session[1]

\* the cycle waits after a 401 with the session cleared, one retry left
C9_Witness ==
  /\ pc = "backoff"
  /\ caught = "Status401"
  /\ session = <<>>
  /\ retryCount = DefaultMaxRetries - 1

\* C10: a rejected login is fatal: the cycle ends there, with no wait and
\* no further call of the Authenticator, and returns success = false.
C10_AuthErrorIsFatal ==
  authFailed =>
    /\ pc = "idle"
    /\ result.kind = "returned"
    /\ ~result.success

\* C11: when the first attempt of a cycle failed with a 401 or 403 and the
\* second attempt's request is answered with well-formed points, the cycle
\* returns success = true, its entries are the transform of that answer and
\* lie in the second request's window, and the cycle has called
\* authenticate twice, the second time forcing a new login, after one wait.
C11_ExpiryThenSuccess ==
  [][(/\ pc = "fetching"
      /\ retryCount = 1
      /\ IsAuthExpired(firstError)
      /\ pc' = "idle"
      /\ raised' = "none")
     => /\ result'.kind = "returned"
        /\ result'.success
        /\ result'.entries = transformToNightscout(readings')
        /\ \A i \in 1..Len(result'.entries) :
             /\ request.startDate <= RawTime(result'.entries[i])
             /\ RawTime(result'.entries[i]) <= request.endDate
        /\ authCalls' = 2
        /\ authMode = "login"
        /\ waits = <<RetryDelay(1)>>]_vars

\* a cycle that succeeded with records at its second attempt after a 401
C11_Witness ==
  /\ pc = "idle"
  /\ firstError = "Status401"
  /\ authCalls = 2
  /\ result.success
  /\ result.entries # <<>>

C13_NoCheckpointFilePlansFull ==
  (pc = "fetching" /\ ~file.exists /\ ~options.forceFullFetch) =>
    fetchType = "FULL"

\* C14: when a cycle has fetched and transformed readings and the write
\* of the checkpoint file fails, saveCheckpoint hands back null, no error
\* reaches the cycle, and the cycle returns success = true with the
\* transform of every fetched reading.
C14_WriteFailureIsNotFatal ==
  (/\ pc = "idle"
   /\ ShouldSave(readings)
   /\ ~TransformThrows(readings)
   /\ ~wrote)
  => /\ raised = "none"
     /\ result.kind = "returned"
     /\ result.success
     /\ result.entries = transformToNightscout(readings)

\* a cycle returned a record although its checkpoint write failed
C14_Witness ==
  /\ pc = "idle"
  /\ ~wrote
  /\ ~file.exists
  /\ Len(readings) > 0
  /\ result.success
  /\ Len(result.entries) > 0

\* C15: loadCheckpoint followed directly by saveCheckpoint, on a
\* well-formed checkpoint file, writes back the lastGuid, lastReadingTime
\* and patientId the file held.
C15_LoadThenSaveRoundTrip ==
  [][(pc = "loaded" /\ file.exists /\ wrote') =>
       /\ file'.exists
       /\ file'.lastGuid = file.lastGuid
       /\ file'.lastReadingTime = file.lastReadingTime
       /\ file'.patientId = file.patientId]_vars

\* the file written again after a load, the reader holding its fields
C15_Witness ==
  /\ pc = "saved"
  /\ wrote
  /\ output.kind = "checkpoint"
  /\ file \in WellFormedCheckpoints
  /\ lastGuid = file.lastGuid
  /\ lastReadingTime = file.lastReadingTime
  /\ patientId = file.patientId

\* C16: every entry transformToNightscout returns has its mmol/L value
\* strictly between 0 and 30; exactly the points with such a value are
\* kept (0.01 and 29.99 among them; 0, 30, values outside and a missing
\* value are dropped); and a call whose labels parse returns, whatever the
\* values are.
C16_ValueStrictlyBetween0And30 ==
  (pc = "done" /\ input.kind = "transform") =>
    /\ output.kind = "entries" =>
         /\ \A i \in 1..Len(output.entries) :
              /\ output.entries[i].sgv_mmol > 0
              /\ output.entries[i].sgv_mmol < 3000
         /\ Len(output.entries) =
              Cardinality({k \in 1..Len(input.points) :
                             input.points[k].y \in 1..2999})
    /\ (\A k \in 1..Len(input.points) : input.points[k].timestamp # BadStamp)
         => output.kind = "entries"

\* a point of 30.00 dropped and a point of 0.01 kept
C16_Witness ==
  /\ pc = "done"
  /\ output.kind = "entries"
  /\ Len(input.points) = 2
  /\ input.points[1].y = 3000
  /\ input.points[2].y = 1
  /\ Len(output.entries) = 1
  /\ output.entries[1].sgv_mmol = 1

\* C17: the entries transformToNightscout returns are ordered newest
\* first by corrected timestamp, whatever the order of the points.
C17_EntriesNewestFirst ==
  (pc = "done" /\ output.kind = "entries") =>
    \A i, j \in 1..Len(output.entries) :
      i < j => output.entries[i].date >= output.entries[j].date

\* two points given oldest first and returned newest first
C17_Witness ==
  /\ pc = "done"
  /\ output.kind = "entries"
  /\ Len(input.points) = 2
  /\ input.points[1].timestamp < input.points[2].timestamp
  /\ Len(output.entries) = 2
  /\ output.entries[1].date > output.entries[2].date

\* C18: a point of v mmol/L gives a reading and an entry whose sgv is
\* v x 18.0143 rounded to the nearest whole number (so sgv is less than
\* one unit away from v x 18.0143) and whose sgv_mmol is v; 5.0, 8.2 and
\* 12.1 give 90, 148 and 218.
C18_SgvIsRoundedConversion ==
  (pc = "done" /\ input.kind = "transform") =>
    /\ \A k \in 1..Len(readings) :
         LET y == input.points[k].y
             value == readings[k].value
         IN  y # NoValue =>
               /\ readings[k].y_mmol = y
               /\ 2 * (value * 1000000 - y * 180143) <= 1000000
               /\ 2 * (value * 1000000 - y * 180143) > -1000000
    /\ output.kind = "entries" =>
         \A i \in 1..Len(output.entries) :
           LET e == output.entries[i]
           IN  /\ \E k \in 1..Len(readings) :
                    /\ e.glookoGuid = readings[k].guid
                    /\ e.sgv = readings[k].value
                    /\ e.sgv_mmol = input.points[k].y
               /\ e.sgv_mmol = 500 => e.sgv = 90
               /\ e.sgv_mmol = 820 => e.sgv = 148
               /\ e.sgv_mmol = 1210 => e.sgv = 218

\* 8.2 and 12.1 mmol/L returned as 148 and 218 mg/dL
C18_Witness ==
  /\ pc = "done"
  /\ output.kind = "entries"
  /\ Len(output.entries) = 2
  /\ output.entries[1].sgv_mmol = 820
  /\ output.entries[1].sgv = 148
  /\ output.entries[2].sgv_mmol = 1210
  /\ output.entries[2].sgv = 218

\* C19: getTrendArrow gives each known text code and its numeric
\* counterpart, as a number or as a numeric string, the same direction, and
\* gives "NONE" for every code that is not known, for null and for a
\* missing code.
C19_TrendCodesMapToDirections ==
  (pc = "done" /\ input.kind = "trend") =>
    LET code == String(input.trend)
        d == output.direction
    IN  /\ code \in {"RISING_QUICKLY", "1"} => d = "DoubleUp"
        /\ code \in {"RISING", "2"} => d = "SingleUp"
        /\ code \in {"RISING_SLIGHTLY", "3"} => d = "FortyFiveUp"
        /\ code \in {"STEADY", "4"} => d = "Flat"
        /\ code \in {"FALLING_SLIGHTLY", "5"} => d = "FortyFiveDown"
        /\ code \in {"FALLING", "6"} => d = "SingleDown"
        /\ code \in {"FALLING_QUICKLY", "7"} => d = "DoubleDown"
        /\ code \in {"NOT_COMPUTABLE", "9"} => d = "NOT COMPUTABLE"
        /\ code \in {"NONE", "0"} => d = "NONE"
        /\ code = "RATE_OUT_OF_RANGE" => d = "RateOutOfRange"
        /\ code \notin {"RISING_QUICKLY", "RISING", "RISING_SLIGHTLY",
                        "STEADY", "FALLING_SLIGHTLY", "FALLING",
                        "FALLING_QUICKLY", "NOT_COMPUTABLE", "NONE",
                        "RATE_OUT_OF_RANGE", "0", "1", "2", "3", "4", "5",
                        "6", "7", "9"}
             => d = "NONE"

C21_IncrementalReturnsOnlyNewData ==
  [][(/\ pc = "fetching"
      /\ fetchType = "INCREMENTAL"
      /\ file.exists
      /\ file.lastReadingTime = lastReadingTime
      /\ file.lastGuid = lastGuid
      /\ pc' = "idle"
      /\ result'.success)
     => \A i \in 1..Len(result'.entries) :
          RawTime(result'.entries[i]) > lastReadingTime]_vars

\* C22: when a process dies after the transform step and before the
\* checkpoint write, the checkpoint file is left as it was, and every
\* request of the next run's cycle, FULL or INCREMENTAL, asks for a window
\* that holds the timestamp of every reading the dead process had
\* retrieved.
C22_CrashBeforeSaveIsSafe ==
  [][/\ retrieved' # retrieved => file' = file
     /\ (pc' = "fetching" /\ retrieved' # {}) =>
          \A t \in retrieved' :
            request'.startDate <= t /\ t <= request'.endDate]_vars

\* C23: every FULL request follows one of two windows.  With forceFull set
\* it is the UTC calendar day of now, from 00:00:00.000 to 23:59:59.999,
\* whatever the checkpoint and hoursBack are; with forceFull unset the
\* reader has no usable checkpoint and the window is [now - hoursBack, now].
C23_FullWindowPolicy ==
  (pc = "fetching" /\ fetchType = "FULL") =>
    IF options.forceFullFetch
    THEN /\ request.startDate = now - (now % 86400000)
         /\ request.endDate = request.startDate + 86399999
    ELSE /\ ~HasCheckpoint
         /\ request.startDate = now - options.hoursBack * 3600000
         /\ request.endDate = now

\* a forced request for the day of now, which starts neither at the
\* checkpoint's lastReadingTime nor at the look-back
C23_Witness ==
  /\ pc = "fetching"
  /\ options.forceFullFetch
  /\ HasCheckpoint
  /\ request.startDate = StartOfDay(now)
  /\ request.startDate # lastReadingTime
  /\ request.startDate # now - options.hoursBack * HourMs

\* C24: authenticate hands back the session it holds, without a login,
\* only when forceNew is false, a session exists and its expiry is
\* strictly later than the clock reading of the call, so never at or after
\* the expiry; and a login that goes through at reading t leaves a session
\* stamped t that expires at t + 23 hours.
C24_CachedSessionOnlyBeforeExpiry ==
  [][(pc = "call" /\ input.kind = "authenticate" /\ pc' = "done") =>
       /\ output'.kind \in {"cached", "login", "thrown"}
       /\ output'.kind = "cached" =>
            /\ ~input.forceNew
            /\ session # <<>>
            /\ sessionExpiry # NULL
            /\ sessionExpiry > now'
            /\ session' = session
            /\ sessionExpiry' = sessionExpiry
       /\ output'.kind = "login" =>
            /\ session'[2] = now'
            /\ sessionExpiry' = now' + 23 * 3600000]_vars

\* the session handed back one millisecond before it expires
C24_Witness ==
  /\ pc = "done"
  /\ input.kind = "authenticate"
  /\ output.kind = "cached"
  /\ sessionExpiry = now + 1

\* what is left of a running cycle: four steps for each attempt it may
\* still make, and the steps left in the current one
StepsLeft ==
  4 * (options.maxRetries - retryCount) +
    CASE pc = "backoff" -> 4
      [] pc = "loop" -> 3
      [] pc = "authed" -> 2
      [] pc = "fetching" -> 1
      [] OTHER -> 0

\* C25: a cycle that has started ends, provided every call it awaits comes
\* back: it makes at most maxRetries attempts, each step brings it nearer
\* to its end, and it ends with a result that is either success = true
\* without an error or success = false with one, never both and never a
\* throw.
C25_CycleEndsOneWay ==
  /\ [](pc # "idle" => (authCalls <= options.maxRetries /\ StepsLeft >= 0))
  /\ [][pc # "idle" => (pc' = "idle" \/ StepsLeft' < StepsLeft)]_vars
  /\ []((pc = "idle" /\ result.kind # "none") =>
          /\ result.kind = "returned"
          /\ result.success <=> result.error = "none")
  /\ (pc # "idle") ~> (pc = "idle" /\ result.kind = "returned")

\* a cycle has ended in failure after its last attempt
C25_Witness ==
  /\ pc = "idle"
  /\ result.kind = "returned"
  /\ ~result.success
  /\ result.error = "Transport"
  /\ authCalls = DefaultMaxRetries

\* the step ends an attempt in the catch of line 501: the cycle waits, or
\* the error leaves fetchCGMReadings
AttemptFails ==
  /\ pc \in {"loop", "authed", "fetching"}
  /\ \/ pc' = "backoff"
     \/ /\ pc' = "idle"
        /\ raised' # "none"
        /\ ~(pc = "fetching" /\ raised' \in {"RangeError", "WriteError"})

\* the step ends an attempt with its response handled: fetchCGMReadings
\* returns the readings
AttemptSucceeds ==
  /\ pc = "fetching"
  /\ pc' = "idle"
  /\ raised' \in {"none", "RangeError", "WriteError"}

\* C26: an attempt that fails hands on no reading and leaves lastGuid,
\* lastReadingTime and the checkpoint file as they were, and so does every
\* step of a cycle but the one that handles a response; the readings a
\* cycle returns are those of that one response, all inside the window
\* that attempt asked for, and the checkpoint it sets is their newest.
C26_NoPartialResultsAcrossAttempts ==
  [][/\ AttemptFails =>
          /\ lastGuid' = lastGuid
          /\ lastReadingTime' = lastReadingTime
          /\ file' = file
          /\ readings' = <<>>
          /\ pc' = "idle" => result'.entries = <<>>
     /\ (pc # "idle" /\ ~AttemptSucceeds) =>
          /\ lastGuid' = lastGuid
          /\ lastReadingTime' = lastReadingTime
          /\ file' = file
          /\ readings' = readings
     /\ (AttemptSucceeds /\ result'.success) =>
          /\ result'.entries = transformToNightscout(readings')
          /\ \A i \in 1..Len(readings') :
               /\ request.startDate <= readings'[i].timestamp
               /\ readings'[i].timestamp <= request.endDate
          /\ readings' = <<>> =>
               /\ lastGuid' = lastGuid
               /\ lastReadingTime' = lastReadingTime
               /\ file' = file
          /\ readings' # <<>> =>
               /\ lastGuid' = readings'[1].guid
               /\ lastReadingTime' = readings'[1].timestamp
               /\ file' \in {file, Checkpoint(readings'[1].guid,
                                             readings'[1].timestamp,
                                             patientId)}]_vars

\* a cycle whose first attempt failed in transport and whose second
\* fetched a reading and saved the checkpoint from it
C26_Witness ==
  /\ pc = "idle"
  /\ firstError = "Transport"
  /\ result.success
  /\ wrote
  /\ Len(readings) > 0
  /\ file.lastGuid = readings[1].guid

\* the three bands of a merge call, in the order the code concatenates them
MergedInput ==
  input.bands.cgmHigh \o input.bands.cgmNormal \o input.bands.cgmLow

\* every label of the bands of a merge call parses
LabelsParse ==
  \A k \in 1..Len(MergedInput) : MergedInput[k].timestamp # BadStamp

\* C27: when every label parses, the merged readings are the points of
\* cgmHigh, cgmNormal and cgmLow, each once for each time it came, ordered
\* by raw timestamp, newest first; points of equal timestamp stay in the
\* order cgmHigh, cgmNormal, cgmLow and, within a band, in the order they
\* came.
C27_MergedNewestFirstStable ==
  (pc \in {"merged", "done"} /\ input.kind = "merge" /\ LabelsParse) =>
    LET n == Len(MergedInput)
    IN  /\ Len(readings) = n
        /\ \E f \in [1..n -> 1..n] :
             /\ \A i, j \in 1..n : i # j => f[i] # f[j]
             /\ \A i \in 1..n :
                  /\ readings[i].timestamp = MergedInput[f[i]].timestamp
                  /\ readings[i].y_mmol = MergedInput[f[i]].y
             /\ \A i, j \in 1..n :
                  i < j =>
                    \/ MergedInput[f[i]].timestamp > MergedInput[f[j]].timestamp
                    \/ /\ MergedInput[f[i]].timestamp
                            = MergedInput[f[j]].timestamp
                       /\ f[i] < f[j]

\* a point of cgmLow and a point of cgmHigh at the same instant, merged
\* with the point of cgmHigh first
C27_Witness ==
  /\ pc = "merged"
  /\ input.bands.cgmNormal = <<>>
  /\ Len(input.bands.cgmHigh) = 1
  /\ Len(input.bands.cgmLow) = 1
  /\ input.bands.cgmHigh[1].timestamp = input.bands.cgmLow[1].timestamp
  /\ input.bands.cgmHigh[1].y = 1200
  /\ input.bands.cgmLow[1].y = 0
  /\ Len(readings) = 2
  /\ readings[1].y_mmol = 1200
  /\ readings[2].y_mmol = 0

\* C28: the merge keeps every point: there are as many merged readings as
\* the three bands hold points, each point as often as it came, in one
\* band or in several; and when the transform returns, it returns as many
\* entries as there are points whose value lies strictly between 0 and 30
\* mmol/L.
C28_MergeKeepsEveryPoint ==
  (pc \in {"merged", "done"} /\ input.kind = "merge") =>
    /\ Len(readings) =
         Len(input.bands.cgmHigh) + Len(input.bands.cgmNormal)
           + Len(input.bands.cgmLow)
    /\ \A pt \in MergePoints :
         Cardinality({i \in 1..Len(readings) :
                        /\ readings[i].timestamp = pt.timestamp
                        /\ readings[i].y_mmol = pt.y})
           = Cardinality({k \in 1..Len(MergedInput) : MergedInput[k] = pt})
    /\ output.kind = "entries" =>
         Len(output.entries) =
           Cardinality({k \in 1..Len(MergedInput) :
                          MergedInput[k].y > 0 /\ MergedInput[k].y < 3000})

\* one point sent both in cgmHigh and in cgmLow, merged twice and returned
\* twice
C28_Witness ==
  /\ pc = "merged"
  /\ Len(input.bands.cgmHigh) = 1
  /\ input.bands.cgmLow = input.bands.cgmHigh
  /\ Len(readings) = 2
  /\ readings[1] = readings[2]
  /\ output.kind = "entries"
  /\ Len(output.entries) = 2

C30_CheckpointChangesOnlyOnSuccessWithData ==
  [][pc # "idle" =>
       \/ UNCHANGED <<file, lastGuid, lastReadingTime>>
       \/ /\ pc' = "idle"
          /\ result'.kind = "returned"
          /\ result'.success
          /\ Len(readings') > 0]_vars

\* C31: only the first attempt of a cycle may take the cached session.
\* Every later attempt (retryCount > 0) calls authenticate with forceNew
\* and sends a login, never taking the cache, whatever error the attempt
\* before it had met; so the logins of a cycle are at least its calls of
\* authenticate, one per attempt, less one.
C31_OnlyFirstAttemptMayReuseSession ==
  /\ [](authCalls - 1 <= logins /\ logins <= authCalls)
  /\ [][(pc = "loop" /\ pc' # "loop" /\ retryCount > 0) =>
          /\ authCalls' = authCalls + 1
          /\ logins' = logins + 1
          /\ authMode' # "cached"
          /\ pc' = "authed" =>
               /\ authMode' = "login"
               /\ session'[1] = account
               /\ sessionExpiry' = session'[2] + SessionHours * HourMs]_vars
  /\ [][(authMode' = "cached" /\ authMode # "cached") =>
          (retryCount = 0 /\ UNCHANGED <<logins, session>>)]_vars

\* the second attempt of a cycle has logged in although the first one had
\* taken the cached session and met a transport error, which leaves the
\* session in place
C31_Witness ==
  /\ pc = "authed"
  /\ retryCount = 1
  /\ firstError = "Transport"
  /\ authCalls = 2
  /\ logins = 1
  /\ authMode = "login"

(* ------------- the checkpoint file shared with another reader --------- *)
\* the accounts of the other readers that use the same checkpoint file
\* (config.checkpointFile defaults to a relative path, line 24)
OtherPatients == {2}

\* lines 599-609, in another reader: it saves its checkpoint into the file
\* while this reader is between two cycles
OtherReaderSaves ==
  /\ pc = "idle"
  /\ \E c \in WellFormedCheckpoints : \E p \in OtherPatients :
       /\ file' = Checkpoint(c.lastGuid, c.lastReadingTime, p)
       /\ file' # file
  /\ UNCHANGED <<account, session, sessionExpiry, patientId, lastGuid,
                 lastReadingTime, pc, options, retryCount, now, fetchType,
                 request, authMode, authCalls, logins, authFailed, waits,
                 readings, result, caught, firstError, raised, wrote,
                 succeeded, gotData>>
  /\ UNCHANGED callVars

NextShared ==
  \/ \E opts \in LiveOptions : StartCycle(opts)
  \/ CycleStep
  \/ OtherReaderSaves

\* one reader running cycles on a checkpoint file another reader saves to
SpecShared == Init /\ [][NextShared]_vars

\* C32: the patientId a cycle writes to the checkpoint file is the one of
\* the session its request was sent with (line 390), also when the cycle
\* took the cached session after loading a checkpoint with another
\* patientId.
C32_SavedIdentityIsTheSessions ==
  [][(pc = "fetching" /\ pc' = "idle" /\ wrote') =>
       /\ file'.exists
       /\ file'.patientId = request.patient
       /\ file'.patientId = session[1]]_vars

\* C33: with maxRetries = 0 the cycle makes no attempt: it never calls
\* authenticate, sends no login and no request and waits for nothing; its
\* one step returns success=false with no entries and leaves the
\* checkpoint file, the fields loaded from it and the session as they
\* were.
C33_NoRetriesNoAttempt ==
  /\ []((pc # "idle" /\ options.maxRetries = 0) =>
          /\ pc = "loop"
          /\ authCalls = 0
          /\ logins = 0
          /\ waits = <<>>
          /\ request = NoRequest
          /\ now = NULL)
  /\ [][(pc = "loop" /\ options.maxRetries = 0) =>
          /\ pc' = "idle"
          /\ result'.kind = "returned"
          /\ ~result'.success
          /\ result'.entries = <<>>
          /\ result'.error = "TypeError"
          /\ readings' = <<>>
          /\ ~wrote'
          /\ authCalls' = 0
          /\ logins' = 0
          /\ waits' = <<>>
          /\ UNCHANGED <<file, lastGuid, lastReadingTime, patientId,
                         session, sessionExpiry>>]_vars

\* a cycle with maxRetries = 0 has returned, the checkpoint an earlier
\* cycle saved still in the file
C33_Witness ==
  /\ pc = "idle"
  /\ raised = "TypeError"
  /\ result.kind = "returned"
  /\ ~result.success
  /\ authCalls = 0
  /\ file.exists
  /\ lastGuid = file.lastGuid

\* C34: every reading a cycle builds from the graph API has trend null and
\* deviceName "glooko-cgm", and every entry a cycle returns has direction
\* "NONE" and device "glooko-cgm".
C34_CycleEntriesHaveNoDirection ==
  /\ \A i \in 1..Len(readings) :
       /\ readings[i].trend = NullCode
       /\ readings[i].deviceName = "glooko-cgm"
  /\ result.kind = "returned" =>
       \A i \in 1..Len(result.entries) :
         /\ result.entries[i].direction = "NONE"
         /\ result.entries[i].device = "glooko-cgm"

\* a cycle has returned an entry
C34_Witness ==
  /\ pc = "idle"
  /\ result.kind = "returned"
  /\ result.success
  /\ Len(readings) >= 1
  /\ Len(result.entries) >= 1
  /\ result.entries[1].direction = "NONE"
  /\ result.entries[1].sgv_mmol = 500

====
